---- MODULE Spec2Model ----
(***************************************************************************)
(* Model of the decoder-merge pipeline of leks-forever/web-translator      *)
(* (model-convert/merge_lowmem.py and model-convert/merge_and_upload.py).  *)
(*                                                                         *)
(* The state is the working directory ./onnx_export/onnx (graph files,     *)
(* payload files, symlinks), the remote model repository, and the locals   *)
(* of the orchestrator that is currently running.  A run can be killed at  *)
(* any step; the files it has written so far stay, its locals are lost.    *)
(***************************************************************************)
EXTENDS Integers, Sequences, FiniteSets, TLC

(***************************************************************************)
(* Bounds of the model.                                                    *)
(***************************************************************************)
\* tensor lengths of the enumerated source graphs are scaled by 1..MaxUnit
MaxUnit == 1
MaxDerefs == 3
MaxSeed == 2

(***************************************************************************)
(* File names inside ONNX_DIR.                                             *)
(***************************************************************************)
ONNX_DIR == "/cwd/onnx_export/onnx/"

dec_path == "decoder_model.onnx"
dec_data == "decoder_model.onnx_data"
dec_wp_path == "decoder_with_past_model.onnx"
dec_wp_data == "decoder_with_past_model.onnx_data"
merged_path == "decoder_model_merged.onnx"
merged_data_path == "decoder_model_merged.onnx_data"
merged_q_path == "decoder_model_merged_quantized.onnx"

SourceFiles == {dec_path, dec_data, dec_wp_path, dec_wp_data}
FileNames == SourceFiles \cup {merged_path, merged_data_path, merged_q_path}

\* os.path.abspath(os.path.join(ONNX_DIR, name))
abspath(name) == ONNX_DIR \o name

(***************************************************************************)
(* Strings of external_data entries.  A value is a sequence of characters; *)
(* str() formats a number in decimal and int() parses it back.  A location *)
(* value is kept as a one-element sequence holding the file name.          *)
(***************************************************************************)
Digit == <<"0", "1", "2", "3", "4", "5", "6", "7", "8", "9">>

RECURSIVE str(_)
str(n) == IF n < 10 THEN <<Digit[n + 1]>>
          ELSE str(n \div 10) \o <<Digit[(n % 10) + 1]>>

DigitVal(c) == CHOOSE d \in 0..9 : Digit[d + 1] = c

RECURSIVE int(_)
int(s) == IF Len(s) = 1 THEN DigitVal(s[1])
          ELSE 10 * int(SubSeq(s, 1, Len(s) - 1)) + DigitVal(s[Len(s)])

\* _kv("location", file) holds the file name
LocValue(file) == <<file>>

\* external_data of an initializer: entries keyed by "location", "offset",
\* "length" ({e.key: e.value for e in t.external_data})
Keys == {"location", "offset", "length"}

NoEntries == [k \in {} |-> <<>>]

Ref(file, offset, length) ==
    [k \in Keys |-> CASE k = "location" -> LocValue(file)
                      [] k = "offset" -> str(offset)
                      [] k = "length" -> str(length)]

\* int(entries.get("offset", 0))
GetOffset(entries) ==
    IF "offset" \in DOMAIN entries THEN int(entries["offset"]) ELSE 0

\* int(entries.get("length", 0))
GetLength(entries) ==
    IF "length" \in DOMAIN entries THEN int(entries["length"]) ELSE 0

\* entries.get("location", "")
GetLocation(entries) ==
    IF "location" \in DOMAIN entries THEN entries["location"][1] ELSE ""

(***************************************************************************)
(* Graphs: a graph is its initializer list, a function from the tensor     *)
(* names to [data_location, external_data].                                *)
(***************************************************************************)
EXTERNAL == "EXTERNAL"
DEFAULT == "DEFAULT"

NoGraph == [n \in {} |-> 0]

Inline == [data_location |-> DEFAULT, external_data |-> NoEntries,
           raw_data |-> <<7>>]

External(entries) == [data_location |-> EXTERNAL, external_data |-> entries,
                      raw_data |-> <<>>]

ExternalNames(g) == {n \in DOMAIN g : g[n].data_location = EXTERNAL}

(***************************************************************************)
(* build_ext_map(model)                                                    *)
(***************************************************************************)
build_ext_map_all(model) ==
    [n \in DOMAIN model |-> model[n].external_data]

build_ext_map(model) ==
    [n \in ExternalNames(model) |-> model[n].external_data]

(***************************************************************************)
(* restore_ext_refs(merged_model, ext_map_a, ext_map_b)                    *)
(***************************************************************************)
restore_ext_refs_inline_missing(merged_model, ext_map_a, ext_map_b) ==
    [n \in DOMAIN merged_model |->
        IF n \in DOMAIN ext_map_a THEN External(ext_map_a[n])
        ELSE IF n \in DOMAIN ext_map_b THEN External(ext_map_b[n])
        ELSE Inline]

restore_ext_refs_b_first(merged_model, ext_map_a, ext_map_b) ==
    [n \in DOMAIN merged_model |->
        IF n \in DOMAIN ext_map_b THEN External(ext_map_b[n])
        ELSE IF n \in DOMAIN ext_map_a THEN External(ext_map_a[n])
        ELSE merged_model[n]]

restore_ext_refs(merged_model, ext_map_a, ext_map_b) ==
    [n \in DOMAIN merged_model |->
        IF n \in DOMAIN ext_map_a THEN External(ext_map_a[n])
        ELSE IF n \in DOMAIN ext_map_b THEN External(ext_map_b[n])
        ELSE merged_model[n]]

(***************************************************************************)
(* The source artifacts.  Every enumerated pair of source graphs holds an  *)
(* inlined constant "c" and, for each weight name, an External initializer *)
(* in A only, in B only, in both, or in neither; each payload file holds   *)
(* the weights of its graph back to back.  SpecScenario is the pair of     *)
(* graphs of the specification's example.                                  *)
(***************************************************************************)
NameSeq == <<"w1", "w2", "w3">>
WeightNames == {NameSeq[i] : i \in 1..Len(NameSeq)}
Index(n) == CHOOSE i \in 1..Len(NameSeq) : NameSeq[i] = n

TLen(n, u) == IF n = "w1" THEN u + 1 ELSE u

RECURSIVE SumLen(_, _)
SumLen(S, u) == IF S = {} THEN 0
                ELSE LET n == CHOOSE m \in S : TRUE
                     IN TLen(n, u) + SumLen(S \ {n}, u)

Before(n, S) == {m \in S : Index(m) < Index(n)}

SrcGraph(S, file, u) ==
    [n \in S \cup {"c"} |->
        IF n \in S THEN External(Ref(file, SumLen(Before(n, S), u), TLen(n, u)))
        ELSE Inline]

\* payload bytes; the two payload files hold different bytes everywhere
Bytes(src, len) == [i \in 1..len |-> IF src = "A" THEN i ELSE 1000 + i]

Placement == {"A", "B", "AB", "none"}

Scenario(place, u) ==
    LET SA == {n \in WeightNames : place[n] \in {"A", "AB"}}
        SB == {n \in WeightNames : place[n] \in {"B", "AB"}}
    IN [gA |-> SrcGraph(SA, dec_data, u),
        gB |-> SrcGraph(SB, dec_wp_data, u),
        dataA |-> Bytes("A", SumLen(SA, u)),
        dataB |-> Bytes("B", SumLen(SB, u))]

SpecScenario ==
    [gA |-> [n \in {"w1", "w2"} |->
                IF n = "w1" THEN External(Ref(dec_data, 0, 100))
                ELSE External(Ref(dec_data, 100, 50))],
     gB |-> [n \in {"w1", "w2", "w3_unique"} |->
                CASE n = "w1" -> External(Ref(dec_wp_data, 0, 100))
                  [] n = "w2" -> External(Ref(dec_wp_data, 100, 50))
                  [] n = "w3_unique" -> External(Ref(dec_wp_data, 0, 30))],
     dataA |-> Bytes("A", 150),
     dataB |-> Bytes("B", 150)]

Scenarios ==
    {Scenario(place, u) : place \in [WeightNames -> Placement], u \in 1..MaxUnit}
        \cup {SpecScenario}

(***************************************************************************)
(* The file system.                                                        *)
(***************************************************************************)
NoFile == [kind |-> "none", bytes |-> <<>>, graph |-> NoGraph,
           target |-> "", complete |-> FALSE]

GraphFile(g) == [kind |-> "file", bytes |-> <<>>, graph |-> g,
                 target |-> "", complete |-> TRUE]

\* a graph file that has been opened for writing and not yet written out
PartialGraphFile == [kind |-> "file", bytes |-> <<>>, graph |-> NoGraph,
                     target |-> "", complete |-> FALSE]

PayloadFile(b) == [kind |-> "file", bytes |-> b, graph |-> NoGraph,
                   target |-> "", complete |-> TRUE]

Symlink(t) == [kind |-> "symlink", bytes |-> <<>>, graph |-> NoGraph,
               target |-> t, complete |-> TRUE]

\* the file a path leads to after following a symbolic link (os.path.realpath)
realpath(f, name) ==
    IF f[name].kind = "symlink"
    THEN IF \E g \in FileNames : abspath(g) = f[name].target
         THEN CHOOSE g \in FileNames : abspath(g) = f[name].target
         ELSE name
    ELSE name

\* os.path.exists: follows symbolic links
exists(f, name) ==
    /\ f[name].kind # "none"
    /\ f[name].kind = "symlink" =>
          /\ realpath(f, name) # name
          /\ f[realpath(f, name)].kind = "file"

\* os.path.getsize
getsize(f, name) == Len(f[realpath(f, name)].bytes)

\* wp_f.seek(offset); wp_f.read(length): at most length bytes from offset on
read_short(bytes, offset, length) ==
    SubSeq(bytes, offset + 1,
           IF offset + length - 1 <= Len(bytes) THEN offset + length - 1
           ELSE Len(bytes))

read(bytes, offset, length) ==
    SubSeq(bytes, offset + 1,
           IF offset + length <= Len(bytes) THEN offset + length ELSE Len(bytes))

\* out_f.seek(0, 2); new_offset = out_f.tell(): the size of the file so far
\* (line 120 computes base_offset + out_f.tell() - base_offset first)
tell_after(size, base) == size + 1

tell_base(size, base) == base

tell(size, base) == size

(***************************************************************************)
(* onnx.numpy_helper.to_array and its replacement.  A dereference yields   *)
(* the array and the number of payload bytes it has read from disk.        *)
(***************************************************************************)
HashNames == <<"c", "w1", "w2", "w3", "w3_unique">>

\* hash(tensor.name): an integer, possibly negative, that depends on the
\* string and on the hash randomisation of the process
hash(name, seed) ==
    LET code == CHOOSE i \in 1..Len(HashNames) : HashNames[i] = name
    IN ((code * 7919 + seed * 104729) % 65536) - 32768

\* x & 0x7FFFFFFF
Mask31(x) == IF x >= 0 THEN x ELSE (x + 2147483647) + 1

\* _orig_to_array(tensor, base_dir): the bytes the tensor holds, read from
\* the payload file of base_dir when the tensor is External
orig_to_array(name, tensor, base_dir) ==
    IF tensor.data_location = EXTERNAL
    THEN LET data == read(base_dir[GetLocation(tensor.external_data)].bytes,
                          GetOffset(tensor.external_data),
                          GetLength(tensor.external_data))
         IN [dtype |-> "raw", data |-> data, nread |-> Len(data)]
    ELSE [dtype |-> "raw", data |-> tensor.raw_data, nread |-> 0]

patched_to_array_by_ref(name, tensor, base_dir, seed) ==
    IF tensor.data_location = EXTERNAL
    THEN [dtype |-> "int64",
          data |-> <<Mask31(hash(name, seed)
                            + GetOffset(tensor.external_data))>>,
          nread |-> 0]
    ELSE orig_to_array(name, tensor, base_dir)

\* lines 69-72: _patched_to_array(tensor, base_dir)
patched_to_array(name, tensor, base_dir, seed) ==
    IF tensor.data_location = EXTERNAL
    THEN [dtype |-> "int64", data |-> <<Mask31(hash(name, seed))>>,
          nread |-> 0]
    ELSE orig_to_array(name, tensor, base_dir)

(***************************************************************************)
(* merge_decoders (optimum), the opaque structural merge.  The merged      *)
(* graph holds the initializers of both graphs once per name.  For a name  *)
(* of both graphs the copy of either side may be kept; the storage mode of *)
(* an initializer is preserved but its external_data need not be valid     *)
(* (stale); the merge may add an initializer of its own (extra).           *)
(***************************************************************************)
StaleRef == Ref("stale.onnx_data", 999, 1)

MergedGraph(dec, dec_wp, side, stale, extra) ==
    LET names == (DOMAIN dec \cup DOMAIN dec_wp)
                    \cup (IF extra THEN {"merged_extra"} ELSE {})
        kept(n) == IF n \in DOMAIN dec /\ (n \notin DOMAIN dec_wp \/ side = "A")
                   THEN dec[n] ELSE dec_wp[n]
    IN [n \in names |->
          IF n = "merged_extra" THEN External(StaleRef)
          ELSE IF stale /\ kept(n).data_location = EXTERNAL
               THEN External(StaleRef)
               ELSE kept(n)]

merge_decoders(dec, dec_wp) ==
    {MergedGraph(dec, dec_wp, side, stale, extra) :
        side \in {"A", "B"}, stale \in BOOLEAN, extra \in BOOLEAN}

\* the merges that keep every initializer as one of the source graphs has it
merge_decoders_faithful(dec, dec_wp) ==
    {MergedGraph(dec, dec_wp, side, FALSE, FALSE) : side \in {"A", "B"}}

(***************************************************************************)
(* Reference rewriting of the two paths of merge_lowmem.main and of        *)
(* merge_and_upload.main.                                                  *)
(***************************************************************************)
MergedLoc == LocValue(merged_data_path)

\* merge_lowmem.py lines 127-143
UpdateRefs_keep_offset(g, omap) ==
    [n \in DOMAIN g |->
        IF g[n].data_location = EXTERNAL
        THEN External([k \in DOMAIN g[n].external_data |->
                         IF k = "location" THEN MergedLoc
                         ELSE g[n].external_data[k]])
        ELSE g[n]]

UpdateRefs(g, omap) ==
    [n \in DOMAIN g |->
        IF g[n].data_location = EXTERNAL
        THEN IF n \in DOMAIN omap
             THEN External(Ref(merged_data_path, omap[n][1], omap[n][2]))
             ELSE External([k \in DOMAIN g[n].external_data |->
                              IF k = "location" THEN MergedLoc
                              ELSE g[n].external_data[k]])
        ELSE g[n]]

\* merge_lowmem.py lines 154-158, merge_and_upload.py lines 95-99
PatchLocations_reset_offset(g) ==
    [n \in DOMAIN g |->
        IF g[n].data_location = EXTERNAL
        THEN External([k \in DOMAIN g[n].external_data |->
                         IF k = "location" THEN MergedLoc
                         ELSE IF k = "offset" THEN str(0)
                         ELSE g[n].external_data[k]])
        ELSE g[n]]

PatchLocations(g) ==
    [n \in DOMAIN g |->
        IF g[n].data_location = EXTERNAL
        THEN External([k \in DOMAIN g[n].external_data |->
                         IF k = "location" THEN MergedLoc
                         ELSE g[n].external_data[k]])
        ELSE g[n]]

(***************************************************************************)
(* State.                                                                  *)
(***************************************************************************)
VARIABLES
    hub,          \* the four source files in the remote model repository
    fetched,      \* files the running download_if_needed has downloaded
    fs,           \* the files of ONNX_DIR
    remote,       \* files uploaded to onnx/ of the remote repository
    prog,         \* the orchestrator that is running
    pc,           \* its position
    needed,       \* download_if_needed: files still to look at
    decoder,      \* locals of main
    decoder_wp,
    ext_a,
    ext_b,
    merged,
    only_in_b,
    todo,         \* names of only_in_b the append loop has not reached yet
    base_offset,
    offset_map,
    to_upload,
    to_array,     \* onnx.numpy_helper.to_array: "orig" or "patched"
    cwd,          \* working directory of the process: "orig" or "onnx"
    hashseed,     \* the hash randomisation of the process, 0 while unobserved
    derefs,       \* what the running merge call has got from to_array
    report,       \* what the run has logged for each stage
    completed,    \* some run has reached "Done!"
    after_complete, \* the run was started after a run had reached "Done!"
    nwritten      \* payload bytes the run has written

locals == <<decoder, decoder_wp, ext_a, ext_b, merged, only_in_b,
            todo, base_offset, offset_map, to_upload>>
process == <<to_array, cwd, hashseed>>
vars == <<hub, fetched, fs, remote, prog, pc, needed, decoder, decoder_wp,
          ext_a, ext_b, merged, only_in_b, todo, base_offset, offset_map,
          to_upload, to_array, cwd, hashseed, derefs, report, completed,
          after_complete, nwritten>>

Stages == {"merge", "quantize", "upload"}
NoReport == [s \in Stages |-> "-"]

MergedFiles == <<merged_path, merged_data_path, merged_q_path>>

ClearLocals ==
    /\ decoder' = NoGraph
    /\ decoder_wp' = NoGraph
    /\ ext_a' = NoGraph
    /\ ext_b' = NoGraph
    /\ merged' = NoGraph
    /\ only_in_b' = {}
    /\ todo' = {}
    /\ base_offset' = 0
    /\ offset_map' = NoGraph
    /\ to_upload' = <<>>

InitFrom(scenarios) ==
    /\ \E sc \in scenarios :
          /\ hub = [f \in SourceFiles |->
                      CASE f = dec_path -> GraphFile(sc.gA)
                        [] f = dec_data -> PayloadFile(sc.dataA)
                        [] f = dec_wp_path -> GraphFile(sc.gB)
                        [] f = dec_wp_data -> PayloadFile(sc.dataB)]
          /\ \E present \in {SourceFiles, {}} :
                fs = [f \in FileNames |-> IF f \in present THEN hub[f] ELSE NoFile]
    /\ remote = [i \in 1..Len(MergedFiles) |-> NoFile]
    /\ prog = "none"
    /\ pc = "idle"
    /\ needed = <<>>
    /\ decoder = NoGraph
    /\ decoder_wp = NoGraph
    /\ ext_a = NoGraph
    /\ ext_b = NoGraph
    /\ merged = NoGraph
    /\ only_in_b = {}
    /\ todo = {}
    /\ base_offset = 0
    /\ offset_map = NoGraph
    /\ to_upload = <<>>
    /\ to_array = "orig"
    /\ cwd = "orig"
    /\ hashseed = 0
    /\ derefs = {}
    /\ fetched = {}
    /\ report = NoReport
    /\ completed = FALSE
    /\ after_complete = FALSE
    /\ nwritten = 0

Init == InitFrom(Scenarios)

(***************************************************************************)
(* Starting and ending a process.                                          *)
(***************************************************************************)
\* python merge_lowmem.py / python merge_and_upload.py
Start(p) ==
    /\ pc \in {"idle", "done", "failed"}
    /\ prog' = p
    /\ pc' = IF p = "merge_lowmem" THEN "lm_check" ELSE "up_download"
    /\ ClearLocals
    /\ needed' = IF p = "merge_lowmem" THEN <<>>
                 ELSE <<dec_path, dec_data, dec_wp_path, dec_wp_data>>
    /\ to_array' = "orig"
    /\ cwd' = "orig"
    /\ hashseed' = 0
    /\ derefs' = {}
    /\ fetched' = {}
    /\ report' = NoReport
    /\ nwritten' = 0
    /\ after_complete' = completed
    /\ UNCHANGED <<hub, fs, remote, completed>>

\* the process is killed: its files stay as they are, its memory is gone
Interrupt ==
    /\ pc \notin {"idle", "done", "failed"}
    /\ pc' = "idle"
    /\ prog' = "none"
    /\ ClearLocals
    /\ needed' = <<>>
    /\ to_array' = "orig"
    /\ cwd' = "orig"
    /\ hashseed' = 0
    /\ derefs' = {}
    /\ fetched' = {}
    /\ report' = NoReport
    /\ nwritten' = 0
    /\ after_complete' = FALSE
    /\ UNCHANGED <<hub, fs, remote, completed>>

(***************************************************************************)
(* merge_lowmem.main, step 1.                                              *)
(***************************************************************************)
LM_Check_never_skips ==
    /\ prog = "merge_lowmem" /\ pc = "lm_check"
    /\ report' = report
    /\ pc' = "lm_load"
    /\ UNCHANGED <<hub, fetched, fs, remote, prog, needed, locals, process,
                   derefs, completed, after_complete, nwritten>>

\* line 63: if os.path.exists(merged_path)
LM_Check ==
    /\ prog = "merge_lowmem" /\ pc = "lm_check"
    /\ IF exists(fs, merged_path)
       THEN /\ report' = [report EXCEPT !["merge"] = "skipped"]
            /\ pc' = "q_check"
       ELSE /\ report' = report
            /\ pc' = "lm_load"
    /\ UNCHANGED <<hub, fetched, fs, remote, prog, needed, locals, process,
                   derefs, completed, after_complete, nwritten>>

\* lines 67-73: onnx.load of both graphs without their payload, build_ext_map
LM_Load ==
    /\ prog = "merge_lowmem" /\ pc = "lm_load"
    /\ IF exists(fs, dec_path) /\ exists(fs, dec_wp_path)
       THEN /\ decoder' = fs[dec_path].graph
            /\ decoder_wp' = fs[dec_wp_path].graph
            /\ ext_a' = build_ext_map(fs[dec_path].graph)
            /\ ext_b' = build_ext_map(fs[dec_wp_path].graph)
            /\ pc' = "lm_merge"
       ELSE /\ UNCHANGED <<decoder, decoder_wp, ext_a, ext_b>>
            /\ pc' = "failed"
    /\ UNCHANGED <<hub, fetched, fs, remote, prog, needed, merged, only_in_b,
                   todo, base_offset, offset_map, to_upload, process, derefs,
                   report, completed, after_complete, nwritten>>

\* lines 76-80: merged = merge_decoders(...)
LM_Merge ==
    /\ prog = "merge_lowmem" /\ pc = "lm_merge"
    /\ merged' \in merge_decoders(decoder, decoder_wp)
    /\ derefs' = {}
    /\ pc' = "lm_restore"
    /\ UNCHANGED <<hub, fetched, fs, remote, prog, needed, decoder,
                   decoder_wp, ext_a, ext_b, only_in_b, todo, base_offset,
                   offset_map, to_upload, process, report, completed,
                   after_complete, nwritten>>

\* lines 76-80 with a merge that keeps the initializers as they are
LM_MergeFaithful ==
    /\ prog = "merge_lowmem" /\ pc = "lm_merge"
    /\ merged' \in merge_decoders_faithful(decoder, decoder_wp)
    /\ derefs' = {}
    /\ pc' = "lm_restore"
    /\ UNCHANGED <<hub, fetched, fs, remote, prog, needed, decoder,
                   decoder_wp, ext_a, ext_b, only_in_b, todo, base_offset,
                   offset_map, to_upload, process, report, completed,
                   after_complete, nwritten>>

\* merge_decoders raises: the exception ends the process
LM_MergeRaise ==
    /\ prog = "merge_lowmem" /\ pc = "lm_merge"
    /\ derefs' = {}
    /\ pc' = "failed"
    /\ UNCHANGED <<hub, fetched, fs, remote, prog, needed, locals, process,
                   report, completed, after_complete, nwritten>>

\* inside merge_decoders: numpy_helper.to_array(initializer) on an
\* initializer of either source graph.  With the original function an
\* External initializer cannot be read (its location is relative to the
\* working directory, which is not ONNX_DIR): that call raises.
Deref ==
    /\ pc \in {"lm_merge", "up_merge"}
    /\ Cardinality(derefs) < MaxDerefs
    /\ \E side \in {"A", "B"} :
          LET g == IF side = "A" THEN decoder ELSE decoder_wp
          IN \E name \in DOMAIN g :
                LET d == [side |-> side, name |-> name, tensor |-> g[name],
                          result |->
                             IF to_array = "patched"
                             THEN patched_to_array(name, g[name], fs, hashseed)
                             ELSE orig_to_array(name, g[name], fs)]
                IN /\ to_array = "orig" =>
                         \/ g[name].data_location # EXTERNAL
                         \/ /\ cwd = "onnx"
                            /\ GetLocation(g[name].external_data) \in FileNames
                            /\ exists(fs, GetLocation(g[name].external_data))
                   /\ d \notin derefs
                   /\ derefs' = derefs \cup {d}
    /\ UNCHANGED <<hub, fetched, fs, remote, prog, pc, needed, locals,
                   process, report, completed, after_complete, nwritten>>

\* lines 84-98: restore_ext_refs, only_in_b, choice of the path
LM_Restore ==
    /\ prog = "merge_lowmem" /\ pc = "lm_restore"
    /\ merged' = restore_ext_refs(merged, ext_a, ext_b)
    /\ only_in_b' = DOMAIN ext_b \ DOMAIN ext_a
    /\ pc' = IF only_in_b' # {} THEN "lm_copy" ELSE "lm_symlink"
    /\ UNCHANGED <<hub, fetched, fs, remote, prog, needed, decoder,
                   decoder_wp, ext_a, ext_b, todo, base_offset, offset_map,
                   to_upload, process, derefs, report, completed,
                   after_complete, nwritten>>

LM_CopyOpen_swapped ==
    /\ prog = "merge_lowmem" /\ pc = "lm_copy"
    /\ IF ~exists(fs, dec_data)
       THEN /\ pc' = "failed"
            /\ fs' = fs
       ELSE /\ pc' = "lm_copying"
            /\ fs' = [fs EXCEPT ![dec_data] =
                        [PayloadFile(<<>>) EXCEPT !.complete = FALSE]]
    /\ UNCHANGED <<hub, fetched, remote, prog, needed, locals, process,
                   derefs, report, completed, after_complete, nwritten>>

\* line 107: shutil.copy2(dec_data, merged_data_path) opens the destination
\* for writing (through a symbolic link if it is one)
LM_CopyOpen ==
    /\ prog = "merge_lowmem" /\ pc = "lm_copy"
    /\ LET dst == realpath(fs, merged_data_path)
       IN IF ~exists(fs, dec_data) \/ dst = dec_data
          THEN /\ pc' = "failed"
               /\ fs' = fs
          ELSE /\ pc' = "lm_copying"
               /\ fs' = [fs EXCEPT ![dst] =
                           [PayloadFile(<<>>) EXCEPT !.complete = FALSE]]
    /\ UNCHANGED <<hub, fetched, remote, prog, needed, locals, process,
                   derefs, report, completed, after_complete, nwritten>>

\* line 107: the copy moves the bytes over in pieces
LM_CopyChunk ==
    /\ prog = "merge_lowmem" /\ pc = "lm_copying"
    /\ LET dst == realpath(fs, merged_data_path)
           src == fs[dec_data].bytes
           have == Len(fs[dst].bytes)
       IN /\ have < Len(src)
          /\ \E k \in 1..(Len(src) - have) :
                /\ fs' = [fs EXCEPT ![dst].bytes = @ \o SubSeq(src, have + 1, have + k)]
                /\ nwritten' = nwritten + k
    /\ UNCHANGED <<hub, fetched, remote, prog, pc, needed, locals, process,
                   derefs, report, completed, after_complete>>

\* lines 107-113: the copy is over; base_offset; both files are opened
LM_CopyDone ==
    /\ prog = "merge_lowmem" /\ pc = "lm_copying"
    /\ Len(fs[realpath(fs, merged_data_path)].bytes) = Len(fs[dec_data].bytes)
    /\ base_offset' = getsize(fs, merged_data_path)
    /\ IF exists(fs, dec_wp_data)
       THEN /\ pc' = "lm_append"
            /\ todo' = only_in_b
       ELSE /\ pc' = "failed"
            /\ todo' = todo
    /\ UNCHANGED <<hub, fetched, fs, remote, prog, needed, decoder,
                   decoder_wp, ext_a, ext_b, merged, only_in_b, offset_map,
                   to_upload, process, derefs, report, completed,
                   after_complete, nwritten>>

\* lines 114-124: one iteration of "for name in only_in_b", in any order
LM_Append ==
    /\ prog = "merge_lowmem" /\ pc = "lm_append"
    /\ \E name \in todo :
          LET entries == ext_b[name]
              old_offset == GetOffset(entries)
              length == GetLength(entries)
              data == read(fs[dec_wp_data].bytes, old_offset, length)
              dst == realpath(fs, merged_data_path)
              new_offset == tell(Len(fs[dst].bytes), base_offset)
          IN /\ fs' = [fs EXCEPT ![dst].bytes = @ \o data]
             /\ offset_map' = [n \in DOMAIN offset_map \cup {name} |->
                                 IF n = name THEN <<new_offset, length>>
                                 ELSE offset_map[n]]
             /\ todo' = todo \ {name}
             /\ nwritten' = nwritten + Len(data)
    /\ UNCHANGED <<hub, fetched, remote, prog, pc, needed, decoder,
                   decoder_wp, ext_a, ext_b, merged, only_in_b, base_offset,
                   to_upload, process, derefs, report, completed,
                   after_complete>>

\* lines 107-124: a read, the copy or an append raises OSError; nothing
\* catches it and nothing removes the file that is being written
LM_IOError ==
    /\ prog = "merge_lowmem" /\ pc \in {"lm_copying", "lm_append"}
    /\ pc' = "failed"
    /\ report' = [report EXCEPT !["merge"] = "failed"]
    /\ UNCHANGED <<hub, fetched, fs, remote, prog, needed, locals, process,
                   derefs, completed, after_complete, nwritten>>

\* lines 113, 127-143: the files are closed, every reference is rewritten
LM_UpdateRefs ==
    /\ prog = "merge_lowmem" /\ pc = "lm_append"
    /\ todo = {}
    /\ fs' = [fs EXCEPT ![realpath(fs, merged_data_path)].complete = TRUE]
    /\ merged' = UpdateRefs(merged, offset_map)
    /\ pc' = "lm_save"
    /\ UNCHANGED <<hub, fetched, remote, prog, needed, decoder, decoder_wp,
                   ext_a, ext_b, only_in_b, todo, base_offset, offset_map,
                   to_upload, process, derefs, report, completed,
                   after_complete, nwritten>>

LM_Symlink_no_link ==
    /\ prog = "merge_lowmem" /\ pc = "lm_symlink"
    /\ fs' = fs
    /\ merged' = PatchLocations(merged)
    /\ pc' = "lm_save"
    /\ UNCHANGED <<hub, fetched, remote, prog, needed, decoder, decoder_wp,
                   ext_a, ext_b, only_in_b, todo, base_offset, offset_map,
                   to_upload, process, derefs, report, completed,
                   after_complete, nwritten>>

\* lines 145-158: the symbolic link, then every location is renamed
LM_Symlink ==
    /\ prog = "merge_lowmem" /\ pc = "lm_symlink"
    /\ IF exists(fs, merged_data_path)
       THEN /\ fs' = fs
            /\ merged' = PatchLocations(merged)
            /\ pc' = "lm_save"
       ELSE IF fs[merged_data_path].kind # "none"
            THEN /\ fs' = fs
                 /\ merged' = merged
                 /\ pc' = "failed"
            ELSE /\ fs' = [fs EXCEPT ![merged_data_path] = Symlink(abspath(dec_data))]
                 /\ merged' = PatchLocations(merged)
                 /\ pc' = "lm_save"
    /\ UNCHANGED <<hub, fetched, remote, prog, needed, decoder, decoder_wp,
                   ext_a, ext_b, only_in_b, todo, base_offset, offset_map,
                   to_upload, process, derefs, report, completed,
                   after_complete, nwritten>>

\* line 161: onnx.save_model opens merged_path for writing
LM_SaveOpen ==
    /\ prog = "merge_lowmem" /\ pc = "lm_save"
    /\ fs' = [fs EXCEPT ![merged_path] = PartialGraphFile]
    /\ pc' = "lm_saving"
    /\ UNCHANGED <<hub, fetched, remote, prog, needed, locals, process,
                   derefs, report, completed, after_complete, nwritten>>

\* lines 161-163: the graph is written out
LM_SaveDone ==
    /\ prog = "merge_lowmem" /\ pc = "lm_saving"
    /\ fs' = [fs EXCEPT ![merged_path] = GraphFile(merged)]
    /\ report' = [report EXCEPT !["merge"] = "ran"]
    /\ pc' = "q_check"
    /\ UNCHANGED <<hub, fetched, remote, prog, needed, locals, process,
                   derefs, completed, after_complete, nwritten>>

(***************************************************************************)
(* merge_and_upload.main: download_if_needed and step 1.                   *)
(***************************************************************************)
UP_DownloadFile_always ==
    /\ prog = "merge_and_upload" /\ pc = "up_download"
    /\ needed # <<>>
    /\ LET local == Head(needed)
       IN IF FALSE
          THEN /\ fs' = fs
               /\ fetched' = fetched
          ELSE /\ fetched' = fetched \cup {local}
               /\ fs' = [fs EXCEPT ![realpath(fs, local)] = hub[local]]
    /\ needed' = Tail(needed)
    /\ UNCHANGED <<hub, remote, prog, pc, locals, process, derefs, report,
                   completed, after_complete, nwritten>>

\* lines 27-40: one iteration of "for repo_path in needed"
UP_DownloadFile ==
    /\ prog = "merge_and_upload" /\ pc = "up_download"
    /\ needed # <<>>
    /\ LET local == Head(needed)
       IN IF exists(fs, local)
          THEN /\ fs' = fs
               /\ fetched' = fetched
          ELSE /\ fetched' = fetched \cup {local}
               /\ fs' = [fs EXCEPT ![realpath(fs, local)] = hub[local]]
    /\ needed' = Tail(needed)
    /\ UNCHANGED <<hub, remote, prog, pc, locals, process, derefs, report,
                   completed, after_complete, nwritten>>

\* line 48: download_if_needed returns; lines 55-57: if os.path.exists(merged_path)
UP_Check ==
    /\ prog = "merge_and_upload" /\ pc = "up_download"
    /\ needed = <<>>
    /\ fetched' = {}
    /\ IF exists(fs, merged_path)
       THEN /\ report' = [report EXCEPT !["merge"] = "skipped"]
            /\ pc' = "q_check"
       ELSE /\ report' = report
            /\ pc' = "up_patch"
    /\ UNCHANGED <<hub, fs, remote, prog, needed, locals, process, derefs,
                   completed, after_complete, nwritten>>

\* lines 68-77: nh.to_array = _patched_to_array; os.chdir(ONNX_DIR)
UP_Patch ==
    /\ prog = "merge_and_upload" /\ pc = "up_patch"
    /\ to_array' = "patched"
    /\ cwd' = "onnx"
    /\ hashseed' \in 1..MaxSeed
    /\ pc' = "up_load"
    /\ UNCHANGED <<hub, fetched, fs, remote, prog, needed, locals, derefs,
                   report, completed, after_complete, nwritten>>

\* lines 80-83: onnx.load of both graphs without their payload
UP_Load ==
    /\ prog = "merge_and_upload" /\ pc = "up_load"
    /\ IF exists(fs, dec_path) /\ exists(fs, dec_wp_path)
       THEN /\ decoder' = fs[dec_path].graph
            /\ decoder_wp' = fs[dec_wp_path].graph
            /\ pc' = "up_merge"
       ELSE /\ UNCHANGED <<decoder, decoder_wp>>
            /\ pc' = "failed"
    /\ UNCHANGED <<hub, fetched, fs, remote, prog, needed, ext_a, ext_b,
                   merged, only_in_b, todo, base_offset, offset_map,
                   to_upload, process, derefs, report, completed,
                   after_complete, nwritten>>

\* lines 85-86: merged = merge_decoders(...)
UP_Merge ==
    /\ prog = "merge_and_upload" /\ pc = "up_merge"
    /\ merged' \in merge_decoders(decoder, decoder_wp)
    /\ derefs' = {}
    /\ pc' = "up_unpatch"
    /\ UNCHANGED <<hub, fetched, fs, remote, prog, needed, decoder,
                   decoder_wp, ext_a, ext_b, only_in_b, todo, base_offset,
                   offset_map, to_upload, process, report, completed,
                   after_complete, nwritten>>

\* lines 85-86 with a merge that keeps the initializers as they are
UP_MergeFaithful ==
    /\ prog = "merge_and_upload" /\ pc = "up_merge"
    /\ merged' \in merge_decoders_faithful(decoder, decoder_wp)
    /\ derefs' = {}
    /\ pc' = "up_unpatch"
    /\ UNCHANGED <<hub, fetched, fs, remote, prog, needed, decoder,
                   decoder_wp, ext_a, ext_b, only_in_b, todo, base_offset,
                   offset_map, to_upload, process, report, completed,
                   after_complete, nwritten>>

\* merge_decoders raises: the exception ends the process
UP_MergeRaise ==
    /\ prog = "merge_and_upload" /\ pc = "up_merge"
    /\ derefs' = {}
    /\ pc' = "failed"
    /\ UNCHANGED <<hub, fetched, fs, remote, prog, needed, locals, process,
                   report, completed, after_complete, nwritten>>

\* lines 87-88: nh.to_array = _orig_to_array; os.chdir(orig_cwd)
UP_Unpatch ==
    /\ prog = "merge_and_upload" /\ pc = "up_unpatch"
    /\ to_array' = "orig"
    /\ cwd' = "orig"
    /\ hashseed' = 0
    /\ pc' = "up_repoint"
    /\ UNCHANGED <<hub, fetched, fs, remote, prog, needed, locals, derefs,
                   report, completed, after_complete, nwritten>>

\* lines 90-99: every location is renamed to decoder_model_merged.onnx_data
UP_Repoint ==
    /\ prog = "merge_and_upload" /\ pc = "up_repoint"
    /\ merged' = PatchLocations(merged)
    /\ pc' = "up_save"
    /\ UNCHANGED <<hub, fetched, fs, remote, prog, needed, decoder,
                   decoder_wp, ext_a, ext_b, only_in_b, todo, base_offset,
                   offset_map, to_upload, process, derefs, report, completed,
                   after_complete, nwritten>>

\* line 103: onnx.save_model opens merged_path for writing
UP_SaveOpen ==
    /\ prog = "merge_and_upload" /\ pc = "up_save"
    /\ fs' = [fs EXCEPT ![merged_path] = PartialGraphFile]
    /\ pc' = "up_saving"
    /\ UNCHANGED <<hub, fetched, remote, prog, needed, locals, process,
                   derefs, report, completed, after_complete, nwritten>>

\* lines 103-105: the graph is written out
UP_SaveDone ==
    /\ prog = "merge_and_upload" /\ pc = "up_saving"
    /\ fs' = [fs EXCEPT ![merged_path] = GraphFile(merged)]
    /\ pc' = "up_symlink"
    /\ UNCHANGED <<hub, fetched, remote, prog, needed, locals, process,
                   derefs, report, completed, after_complete, nwritten>>

\* lines 109-112: the symbolic link to decoder_model.onnx_data
UP_Symlink ==
    /\ prog = "merge_and_upload" /\ pc = "up_symlink"
    /\ IF exists(fs, merged_data_path)
       THEN /\ fs' = fs
            /\ pc' = "q_check"
       ELSE IF fs[merged_data_path].kind # "none"
            THEN /\ fs' = fs
                 /\ pc' = "failed"
            ELSE /\ fs' = [fs EXCEPT ![merged_data_path] = Symlink(abspath(dec_data))]
                 /\ pc' = "q_check"
    /\ report' = IF pc' = "q_check" THEN [report EXCEPT !["merge"] = "ran"]
                 ELSE report
    /\ UNCHANGED <<hub, fetched, remote, prog, needed, locals, process,
                   derefs, completed, after_complete, nwritten>>

(***************************************************************************)
(* Steps 2 and 3 of both orchestrators.                                    *)
(***************************************************************************)
\* every External initializer of the graph names a payload file that exists
PayloadReadable(f, g) ==
    \A n \in ExternalNames(g) :
        LET loc == GetLocation(g[n].external_data)
        IN loc \in FileNames /\ exists(f, loc)

\* if os.path.exists(merged_q_path)
Q_Check_never_skips ==
    /\ pc = "q_check"
    /\ report' = report
    /\ pc' = "q_run"
    /\ UNCHANGED <<hub, fetched, fs, remote, prog, needed, locals, process,
                   derefs, completed, after_complete, nwritten>>

Q_Check ==
    /\ pc = "q_check"
    /\ IF exists(fs, merged_q_path)
       THEN /\ report' = [report EXCEPT !["quantize"] = "skipped"]
            /\ pc' = "u_list"
       ELSE /\ report' = report
            /\ pc' = "q_run"
    /\ UNCHANGED <<hub, fetched, fs, remote, prog, needed, locals, process,
                   derefs, completed, after_complete, nwritten>>

\* quantize_dynamic(merged_path, merged_q_path, ...) loads the merged model
\* with its payload and opens merged_q_path for writing
Q_Open ==
    /\ pc = "q_run"
    /\ IF /\ exists(fs, merged_path)
          /\ fs[merged_path].complete
          /\ PayloadReadable(fs, fs[merged_path].graph)
       THEN /\ fs' = [fs EXCEPT ![merged_q_path] = PartialGraphFile]
            /\ pc' = "q_writing"
       ELSE /\ fs' = fs
            /\ pc' = "failed"
    /\ UNCHANGED <<hub, fetched, remote, prog, needed, locals, process,
                   derefs, report, completed, after_complete, nwritten>>

\* quantize_dynamic writes the quantized graph out
Q_Done ==
    /\ pc = "q_writing"
    /\ fs' = [fs EXCEPT ![merged_q_path] = GraphFile(fs[merged_path].graph)]
    /\ report' = [report EXCEPT !["quantize"] = "ran"]
    /\ pc' = "u_list"
    /\ UNCHANGED <<hub, fetched, remote, prog, needed, locals, process,
                   derefs, completed, after_complete, nwritten>>

\* sorted(glob(decoder_model_merged*.onnx) + glob(decoder_model_merged*.onnx_data))
U_List ==
    /\ pc = "u_list"
    /\ to_upload' = SelectSeq(MergedFiles, LAMBDA f : fs[f].kind # "none")
    /\ pc' = "u_file"
    /\ UNCHANGED <<hub, fetched, fs, remote, prog, needed, decoder,
                   decoder_wp, ext_a, ext_b, merged, only_in_b, todo,
                   base_offset, offset_map, process, derefs, report,
                   completed, after_complete, nwritten>>

\* one iteration of "for path in to_upload": realpath, getsize, upload_file
U_File ==
    /\ pc = "u_file"
    /\ to_upload # <<>>
    /\ LET path == Head(to_upload)
           real == realpath(fs, path)
           i == CHOOSE j \in 1..Len(MergedFiles) : MergedFiles[j] = path
       IN IF fs[real].kind = "file"
          THEN /\ remote' = [remote EXCEPT ![i] = fs[real]]
               /\ to_upload' = Tail(to_upload)
               /\ report' = [report EXCEPT !["upload"] = "ran"]
               /\ pc' = pc
          ELSE /\ remote' = remote
               /\ to_upload' = to_upload
               /\ report' = report
               /\ pc' = "failed"
    /\ UNCHANGED <<hub, fetched, fs, prog, needed, decoder, decoder_wp, ext_a,
                   ext_b, merged, only_in_b, todo, base_offset, offset_map,
                   process, derefs, completed, after_complete, nwritten>>

\* log("==> Done!")
U_Done ==
    /\ pc = "u_file"
    /\ to_upload = <<>>
    /\ pc' = "done"
    /\ completed' = TRUE
    /\ UNCHANGED <<hub, fetched, fs, remote, prog, needed, locals, process,
                   derefs, report, after_complete, nwritten>>

Next ==
    \/ \E p \in {"merge_lowmem", "merge_and_upload"} : Start(p)
    \/ Interrupt
    \/ LM_Check \/ LM_Load \/ LM_Merge \/ LM_MergeRaise \/ LM_Restore
    \/ LM_CopyOpen \/ LM_CopyChunk \/ LM_CopyDone \/ LM_Append
    \/ LM_IOError
    \/ LM_UpdateRefs \/ LM_Symlink \/ LM_SaveOpen \/ LM_SaveDone
    \/ UP_DownloadFile \/ UP_Check \/ UP_Patch \/ UP_Load \/ UP_Merge
    \/ UP_MergeRaise \/ UP_Unpatch \/ UP_Repoint \/ UP_SaveOpen
    \/ UP_SaveDone \/ UP_Symlink
    \/ Q_Check \/ Q_Open \/ Q_Done
    \/ U_List \/ U_File \/ U_Done

Spec == Init /\ [][Next]_vars

\* the same program with a structural merge that keeps every initializer
\* (storage mode and references) as it is in one of the source graphs
NextFaithful ==
    \/ \E p \in {"merge_lowmem", "merge_and_upload"} : Start(p)
    \/ Interrupt
    \/ LM_Check \/ LM_Load \/ LM_MergeFaithful \/ LM_MergeRaise \/ LM_Restore
    \/ LM_CopyOpen \/ LM_CopyChunk \/ LM_CopyDone \/ LM_Append
    \/ LM_IOError
    \/ LM_UpdateRefs \/ LM_Symlink \/ LM_SaveOpen \/ LM_SaveDone
    \/ UP_DownloadFile \/ UP_Check \/ UP_Patch \/ UP_Load \/ UP_MergeFaithful
    \/ UP_MergeRaise \/ UP_Unpatch \/ UP_Repoint \/ UP_SaveOpen
    \/ UP_SaveDone \/ UP_Symlink
    \/ Q_Check \/ Q_Open \/ Q_Done
    \/ U_List \/ U_File \/ U_Done

SpecFaithful == Init /\ [][NextFaithful]_vars

\* the program together with the calls of to_array that merge_decoders
\* makes on the initializers of the two graphs, on the source graphs that
\* hold w1 and w2 in any of the four placements
DerefScenarios ==
    {Scenario(place, u) :
        place \in {q \in [WeightNames -> Placement] : q["w3"] = "none"},
        u \in 1..MaxUnit}

InitDeref == InitFrom(DerefScenarios)

NextDeref == NextFaithful \/ Deref

SpecDeref == InitDeref /\ [][NextDeref]_vars

\* the program on source graphs in which one External initializer, of
\* either graph, lacks its location, its offset or its length entry
Strip(g, n, k) ==
    [m \in DOMAIN g |->
        IF m = n
        THEN External([j \in (DOMAIN g[n].external_data) \ {k} |->
                          g[n].external_data[j]])
        ELSE g[m]]

MalformedScenarios ==
    UNION {{[sc EXCEPT !.gA = Strip(sc.gA, n, k)] :
               n \in ExternalNames(sc.gA), k \in Keys}
           \cup {[sc EXCEPT !.gB = Strip(sc.gB, n, k)] :
                    n \in ExternalNames(sc.gB), k \in Keys} :
           sc \in DerefScenarios}

InitMalformed == InitFrom(MalformedScenarios)

SpecMalformed == InitMalformed /\ [][NextFaithful]_vars

\* merge_lowmem.py alone: every process is a run of merge_lowmem.main
NextLowmem ==
    \/ Start("merge_lowmem")
    \/ Interrupt
    \/ LM_Check \/ LM_Load \/ LM_Merge \/ LM_MergeRaise \/ LM_Restore
    \/ LM_CopyOpen \/ LM_CopyChunk \/ LM_CopyDone \/ LM_Append
    \/ LM_IOError
    \/ LM_UpdateRefs \/ LM_Symlink \/ LM_SaveOpen \/ LM_SaveDone
    \/ Q_Check \/ Q_Open \/ Q_Done
    \/ U_List \/ U_File \/ U_Done

SpecLowmem == Init /\ [][NextLowmem]_vars

(***************************************************************************)
(* Vocabulary of the properties.                                           *)
(***************************************************************************)
\* the bytes at positions offset+1 .. offset+length of a payload
Slice(bytes, offset, length) == [i \in 1..length |-> bytes[offset + i]]

\* the window (offset, length) lies inside the payload
InBounds(bytes, offset, length) == offset + length <= Len(bytes)

\* the bytes a path leads to
Content(name) == fs[realpath(fs, name)].bytes

\* names(A), names(B) and UniqueB of the source graphs on disk
NamesA == ExternalNames(fs[dec_path].graph)
NamesB == ExternalNames(fs[dec_wp_path].graph)
UniqueB == NamesB \ NamesA

\* the declared window of a tensor in its source graph
SrcRef(n) == IF n \in NamesA THEN fs[dec_path].graph[n].external_data
             ELSE fs[dec_wp_path].graph[n].external_data
SrcBytes(n) == IF n \in NamesA THEN fs[dec_data].bytes ELSE fs[dec_wp_data].bytes

RECURSIVE SumDeclared(_)
SumDeclared(S) ==
    IF S = {} THEN 0
    ELSE LET n == CHOOSE m \in S : TRUE
         IN int(fs[dec_wp_path].graph[n].external_data["length"])
               + SumDeclared(S \ {n})

\* merge_lowmem.main has restored the references of the merged graph
Restored == prog = "merge_lowmem" /\ pc \in {"lm_copy", "lm_symlink"}

\* merge_lowmem.main has built the merged payload on the general path
GeneralBuilt ==
    /\ prog = "merge_lowmem"
    /\ only_in_b # {}
    /\ \/ pc = "lm_append" /\ todo = {}
       \/ pc \in {"lm_save", "lm_saving"}
       \/ report["merge"] = "ran"

\* ... and has rewritten the references of the merged graph
GeneralRewritten ==
    /\ prog = "merge_lowmem"
    /\ only_in_b # {}
    /\ pc \in {"lm_save", "lm_saving"} \/ report["merge"] = "ran"

\* merge_lowmem.main has completed its merge stage on the general path
GeneralDone ==
    prog = "merge_lowmem" /\ only_in_b # {} /\ report["merge"] = "ran"

\* merge_lowmem.main has gone through the fast path
FastRewritten ==
    /\ prog = "merge_lowmem"
    /\ only_in_b = {}
    /\ pc \in {"lm_save", "lm_saving"} \/ report["merge"] = "ran"

(***************************************************************************)
(* C1: restore_ext_refs gives every initializer of the merged graph whose  *)
(* name is in index A exactly A's entries (also when B has the name), one  *)
(* whose name is only in index B exactly B's entries, both as External; no *)
(* initializer whose name is in A carries B's entries.                     *)
(***************************************************************************)
C1_RestorePrefersA ==
    Restored =>
        \A n \in DOMAIN merged :
            /\ n \in DOMAIN ext_a =>
                  /\ merged[n].data_location = EXTERNAL
                  /\ merged[n].external_data = ext_a[n]
            /\ (n \notin DOMAIN ext_a /\ n \in DOMAIN ext_b) =>
                  /\ merged[n].data_location = EXTERNAL
                  /\ merged[n].external_data = ext_b[n]
            /\ (n \in DOMAIN ext_a /\ n \in DOMAIN ext_b) =>
                  merged[n].external_data # ext_b[n]

C1_Witness ==
    /\ Restored
    /\ \E n \in DOMAIN merged : n \in DOMAIN ext_a /\ n \in DOMAIN ext_b
    /\ \E n \in DOMAIN merged : n \notin DOMAIN ext_a /\ n \in DOMAIN ext_b

(***************************************************************************)
(* C2: general path of merge_lowmem.main: when the merge stage is over,    *)
(* every External initializer of the saved merged graph whose name is in   *)
(* an index has a window in the merged payload that holds the bytes of its *)
(* window in its source payload (A's for a name of A, else B's).           *)
(***************************************************************************)
C2_WindowsHoldSourceBytes ==
    GeneralDone =>
        LET g == fs[merged_path].graph
        IN \A n \in ExternalNames(g) \cap (NamesA \cup NamesB) :
              LET e == g[n].external_data
                  s == SrcRef(n)
              IN /\ GetLocation(e) = merged_data_path
                 /\ InBounds(Content(merged_data_path), GetOffset(e), GetLength(e))
                 /\ InBounds(SrcBytes(n), GetOffset(s), GetLength(s))
                 /\ Slice(Content(merged_data_path), GetOffset(e), GetLength(e))
                       = Slice(SrcBytes(n), GetOffset(s), GetLength(s))

C2_Witness ==
    /\ GeneralDone
    /\ Cardinality(UniqueB) >= 2
    /\ NamesA \cap NamesB # {}
    /\ UniqueB \subseteq ExternalNames(fs[merged_path].graph)

(***************************************************************************)
(* C3: general path of merge_lowmem.main: the merged payload starts with   *)
(* the bytes of A's payload and its length is the length of A's payload    *)
(* plus the declared lengths of the tensors of UniqueB.                    *)
(***************************************************************************)
C3_PrefixAndLength ==
    GeneralBuilt =>
        LET m == Content(merged_data_path)
            a == fs[dec_data].bytes
        IN /\ fs[merged_data_path].kind = "file"
           /\ Len(m) >= Len(a)
           /\ SubSeq(m, 1, Len(a)) = a
           /\ Len(m) = Len(a) + SumDeclared(UniqueB)

C3_Witness ==
    /\ GeneralBuilt
    /\ Len(fs[dec_data].bytes) > 0
    /\ Cardinality(UniqueB) >= 2

\* the merged graph the merge stage of this run ends with
FinalGraph == IF report["merge"] = "ran" THEN fs[merged_path].graph ELSE merged

\* entries with the location renamed to the merged payload
Renamed(entries) ==
    [k \in DOMAIN entries |-> IF k = "location" THEN LocValue(merged_data_path)
                              ELSE entries[k]]

C4_Rewritten ==
    GeneralRewritten =>
        /\ \A n \in only_in_b \cap DOMAIN FinalGraph :
              /\ n \in DOMAIN offset_map
              /\ FinalGraph[n] =
                    External(Ref(merged_data_path, offset_map[n][1],
                                 int(ext_b[n]["length"])))
        /\ \A n \in DOMAIN ext_a \cap DOMAIN FinalGraph :
              /\ FinalGraph[n] = External(Renamed(ext_a[n]))
              /\ FinalGraph[n].external_data["offset"] = ext_a[n]["offset"]
              /\ FinalGraph[n].external_data["length"] = ext_a[n]["length"]
        /\ (hub[dec_path].graph = SpecScenario.gA
              /\ hub[dec_wp_path].graph = SpecScenario.gB) =>
              /\ Len(Content(merged_data_path)) = 180
              /\ FinalGraph["w1"] = External(Ref(merged_data_path, 0, 100))
              /\ FinalGraph["w2"] = External(Ref(merged_data_path, 100, 50))
              /\ FinalGraph["w3_unique"] = External(Ref(merged_data_path, 150, 30))

C4_AppendStep ==
    (pc = "lm_append" /\ pc' = "lm_append" /\ todo' # todo) =>
        \A n \in todo \ todo' :
            offset_map'[n] = <<Len(Content(merged_data_path)),
                               int(ext_b[n]["length"])>>

(***************************************************************************)
(* C4: general path of merge_lowmem.main: a tensor of UniqueB gets the     *)
(* reference {merged payload, size of the merged payload just before its   *)
(* bytes are appended, its original length}; a tensor resolved from A      *)
(* keeps offset and length and only its location becomes the merged        *)
(* payload.  For A = {w1(0,100), w2(100,50)} and B = {w1, w2,              *)
(* w3_unique(0,30)} the payload has 180 bytes and the references are       *)
(* w1 -> (0,100), w2 -> (100,50), w3_unique -> (150,30).                   *)
(***************************************************************************)
C4_RefRewriting == []C4_Rewritten /\ [][C4_AppendStep]_vars

C4_Witness ==
    /\ GeneralRewritten
    /\ hub[dec_path].graph = SpecScenario.gA
    /\ hub[dec_wp_path].graph = SpecScenario.gB
    /\ report["merge"] = "ran"

C4_WitnessTwoUnique ==
    /\ GeneralRewritten
    /\ Cardinality(only_in_b) >= 2
    /\ DOMAIN ext_a # {}

C5_Aliased ==
    FastRewritten =>
        /\ fs[merged_data_path].kind = "symlink"
        /\ realpath(fs, merged_data_path) = dec_data
        /\ fs[dec_data] = hub[dec_data]
        /\ nwritten = 0
        /\ \A n \in ExternalNames(FinalGraph) :
              /\ GetLocation(FinalGraph[n].external_data) = merged_data_path
              /\ n \in DOMAIN ext_a =>
                    /\ FinalGraph[n].external_data["offset"] = ext_a[n]["offset"]
                    /\ FinalGraph[n].external_data["length"] = ext_a[n]["length"]

C5_FastStep ==
    (prog = "merge_lowmem" /\ pc = "lm_symlink" /\ pc' = "lm_save") =>
        /\ \A f \in FileNames : fs'[f].bytes = fs[f].bytes
        /\ DOMAIN merged' = DOMAIN merged
        /\ \A n \in DOMAIN merged :
              /\ merged'[n].data_location = merged[n].data_location
              /\ DOMAIN merged'[n].external_data = DOMAIN merged[n].external_data
              /\ \A k \in DOMAIN merged[n].external_data \ {"location"} :
                    merged'[n].external_data[k] = merged[n].external_data[k]

(***************************************************************************)
(* C5: fast path of merge_lowmem.main: the merged payload is a symbolic    *)
(* link whose target is A's payload file, no payload byte is written, and  *)
(* every External initializer keeps offset and length while its location   *)
(* becomes the merged payload's name.                                      *)
(***************************************************************************)
C5_FastPathAlias == []C5_Aliased /\ [][C5_FastStep]_vars

C5_Witness ==
    /\ FastRewritten
    /\ report["merge"] = "ran"
    /\ Cardinality(ExternalNames(FinalGraph)) >= 2
    /\ \E n \in ExternalNames(FinalGraph) :
          n \in DOMAIN ext_a /\ int(ext_a[n]["offset"]) > 0

(***************************************************************************)
(* C6: in both orchestrators the merged payload is an alias of A's payload *)
(* only when UniqueB = names(B) - names(A) is empty; when B has an         *)
(* External tensor whose name is not in A the merged payload is a          *)
(* constructed file.                                                       *)
(***************************************************************************)
C6_AliasOnlyWhenShared ==
    fs[merged_data_path].kind = "symlink" =>
        ExternalNames(hub[dec_wp_path].graph)
            \ ExternalNames(hub[dec_path].graph) = {}

(***************************************************************************)
(* C7: reconciliation totality: once the merged graph file is persisted,   *)
(* every initializer in it is Inline, or External with a reference into    *)
(* the merged payload file whose offset + length does not exceed the size  *)
(* of that file.                                                           *)
(***************************************************************************)
C7_Totality ==
    (fs[merged_path].kind = "file" /\ fs[merged_path].complete) =>
        \A n \in DOMAIN fs[merged_path].graph :
            LET t == fs[merged_path].graph[n]
            IN \/ t.data_location = DEFAULT
               \/ /\ GetLocation(t.external_data) = merged_data_path
                  /\ exists(fs, merged_data_path)
                  /\ InBounds(Content(merged_data_path),
                              GetOffset(t.external_data),
                              GetLength(t.external_data))

\* the durable outputs of the merge stage
MergedFilesOf(f) == <<f[merged_path], f[merged_data_path]>>

C8_SecondRun ==
    after_complete =>
        /\ report["merge"] # "ran"
        /\ report["quantize"] # "ran"
        /\ pc = "done" =>
              /\ report["merge"] = "skipped"
              /\ report["quantize"] = "skipped"
              /\ report["upload"] = "ran"

C8_FilesKept == completed => MergedFilesOf(fs') = MergedFilesOf(fs)

C9_Resumption ==
    /\ pc \in {"q_check", "q_run", "q_writing", "u_list", "u_file", "done"} =>
          /\ fs[merged_path].kind = "file"
          /\ fs[merged_path].complete
          /\ exists(fs, merged_data_path)
    /\ pc \in {"u_list", "u_file", "done"} =>
          /\ fs[merged_q_path].kind = "file"
          /\ fs[merged_q_path].complete

(***************************************************************************)
(* C10: checkpoint soundness: in every state, a file that gates a stage    *)
(* (the merged graph, the quantized merged graph) is completely written    *)
(* if it exists.                                                           *)
(***************************************************************************)
C10_CheckpointSound ==
    \A f \in {merged_path, merged_q_path} :
        fs[f].kind # "none" => fs[f].complete


\* C11: when a read, the copy or an append fails while the general path
\* builds the merged payload, no file exists under the final name
\* decoder_model_merged.onnx_data (temporary name, renamed on success).
C11_NoPayloadAfterFailure ==
    (prog = "merge_lowmem" /\ pc = "failed" /\ report["merge"] = "failed")
        => fs[merged_data_path].kind = "none"

\* C12: once the structural merge call of merge_and_upload has ended, by a
\* return or by an exception, onnx.numpy_helper.to_array is the original
\* function and the working directory is the original one: the patched
\* function is installed in no state after the merge step.
C12_SubstitutionScoped ==
    pc \notin {"up_load", "up_merge", "up_unpatch"}
        => (to_array = "orig" /\ cwd = "orig")

\* C13: while the replacement of to_array is installed, the array a
\* dereference of an External initializer returns depends on the tensor's
\* name only (equal names give equal arrays, whatever the references and
\* the payload bytes) and no payload byte is read; the dereference of an
\* Inline initializer returns the tensor's own content, as the original
\* function does.
C13_SurrogateByNameOnly ==
    to_array = "patched" =>
        /\ \A d \in derefs :
              IF d.tensor.data_location = EXTERNAL
              THEN /\ d.result.nread = 0
                   /\ d.result.dtype = "int64"
                   /\ Len(d.result.data) = 1
                   /\ d.result.data[1] \in 0..2147483647
              ELSE d.result = [dtype |-> "raw", data |-> d.tensor.raw_data,
                               nread |-> 0]
        /\ \A d1, d2 \in derefs :
              (/\ d1.tensor.data_location = EXTERNAL
               /\ d2.tensor.data_location = EXTERNAL
               /\ d1.name = d2.name) => d1.result = d2.result

\* the merge has dereferenced, through the replacement, an initializer of
\* each graph under one name with different references, and an Inline one
C13_Witness ==
    /\ to_array = "patched" /\ pc = "up_merge"
    /\ \E d1, d2, d3 \in derefs :
          /\ d1.name = d2.name /\ d1.side = "A" /\ d2.side = "B"
          /\ d1.tensor.data_location = EXTERNAL
          /\ d2.tensor.data_location = EXTERNAL
          /\ d1.tensor.external_data # d2.tensor.external_data
          /\ d3.tensor.data_location = DEFAULT

\* C14: build_ext_map(model) returns a mapping whose keys are exactly the
\* names of the External initializers of the graph and whose value for a
\* name is the list of (key, value) entries of that initializer; it does
\* not modify the graph.
C14_IndexOfExternal ==
    (prog = "merge_lowmem" /\ pc = "lm_merge") =>
        /\ decoder = fs[dec_path].graph
        /\ decoder_wp = fs[dec_wp_path].graph
        /\ \A n \in DOMAIN decoder :
              IF decoder[n].data_location = EXTERNAL
              THEN n \in DOMAIN ext_a /\ ext_a[n] = decoder[n].external_data
              ELSE n \notin DOMAIN ext_a
        /\ \A n \in DOMAIN decoder_wp :
              IF decoder_wp[n].data_location = EXTERNAL
              THEN n \in DOMAIN ext_b /\ ext_b[n] = decoder_wp[n].external_data
              ELSE n \notin DOMAIN ext_b
        /\ DOMAIN ext_a \subseteq DOMAIN decoder
        /\ DOMAIN ext_b \subseteq DOMAIN decoder_wp

\* both indexes have been built from graphs that hold External and Inline
\* initializers, and the two key sets differ
C14_Witness ==
    /\ prog = "merge_lowmem" /\ pc = "lm_merge"
    /\ DOMAIN ext_a # {} /\ DOMAIN ext_b # {}
    /\ DOMAIN ext_a # DOMAIN ext_b
    /\ DOMAIN ext_a # DOMAIN decoder

\* C15: when an External initializer of a source graph has a reference
\* without offset, length or location, the pipeline fails and produces no
\* merged artifact: it never goes on with a defaulted offset or length.
MalformedSource ==
    \E f \in {dec_path, dec_wp_path} :
        \E n \in DOMAIN hub[f].graph :
            /\ hub[f].graph[n].data_location = EXTERNAL
            /\ DOMAIN hub[f].graph[n].external_data # Keys

C15_MalformedRejected ==
    MalformedSource =>
        /\ fs[merged_path].kind = "none"
        /\ fs[merged_data_path].kind = "none"
        /\ fs[merged_q_path].kind = "none"

\* C16: download_if_needed looks at each of the four source files: a file
\* that exists locally is neither downloaded nor overwritten, a missing
\* one is downloaded and copied to its local name; a call made when all
\* four exist (such as a second call) downloads nothing and changes no
\* file.
C16_DownloadStep ==
    (/\ pc = "up_download" /\ pc' = "up_download"
     /\ needed # <<>> /\ needed' = Tail(needed)) =>
        LET local == Head(needed)
        IN IF fs[local].kind # "none"
           THEN fs' = fs /\ fetched' = fetched
           ELSE /\ fetched' = fetched \cup {local}
                /\ fs'[local] = hub[local]
                /\ \A f \in FileNames \ {local} : fs'[f] = fs[f]

C16_SecondCall ==
    (/\ pc = "up_download" /\ pc' = "up_download"
     /\ \A f \in SourceFiles : fs[f].kind # "none") =>
        (fs' = fs /\ fetched' = fetched)

C16_DownloadIfNeeded ==
    /\ [][C16_DownloadStep]_vars
    /\ [][C16_SecondCall]_vars
    /\ [](pc = "up_download" =>
            /\ fetched \subseteq SourceFiles
            /\ \A i \in 1..Len(needed) : needed[i] \notin fetched
            /\ \A f \in fetched : fs[f] = hub[f])

\* a call has downloaded the four files, and a later call has looked at
\* all of them without downloading any
C16_Witness ==
    /\ prog = "merge_and_upload" /\ pc = "up_download" /\ needed = <<>>
    /\ fetched = SourceFiles

C16_WitnessSecondCall ==
    /\ prog = "merge_and_upload" /\ pc = "up_download" /\ needed = <<>>
    /\ fetched = {}
    /\ \A f \in SourceFiles : fs[f] = hub[f]
    /\ fs[merged_path].kind # "none"

\* C17: an initializer of the merged graph whose name is in neither index
\* stays exactly as the structural merge returned it (storage mode and
\* reference entries) through restore_ext_refs and through the rewriting
\* of the file fields of the fast and the general path; the run goes on to
\* save the merged graph.
InNeitherIndex(n) == n \notin (DOMAIN ext_a \cup DOMAIN ext_b)

ReconcileStep ==
    /\ prog = "merge_lowmem"
    /\ \/ pc = "lm_restore" /\ pc' \in {"lm_copy", "lm_symlink"}
       \/ pc \in {"lm_append", "lm_symlink"} /\ pc' = "lm_save"

C17_UntouchedStep ==
    ReconcileStep =>
        \A n \in DOMAIN merged :
            InNeitherIndex(n) => (n \in DOMAIN merged' /\ merged'[n] = merged[n])

C17_NeitherIndexUntouched == [][C17_UntouchedStep]_vars

\* C17, amended: restore_ext_refs leaves such an initializer as it is and
\* never stops the run; the rewriting of either path keeps its storage
\* mode, leaves it alone when it is Inline, and renames the location of
\* its reference, keeping every other entry, when it is External.
C17_KeptStep ==
    /\ (prog = "merge_lowmem" /\ pc = "lm_restore" /\ pc' # "idle") =>
          pc' \in {"lm_copy", "lm_symlink"}
    /\ ReconcileStep =>
          \A n \in DOMAIN merged :
              InNeitherIndex(n) =>
                 /\ n \in DOMAIN merged'
                 /\ merged'[n].data_location = merged[n].data_location
                 /\ (pc = "lm_restore" \/ merged[n].data_location = DEFAULT)
                       => merged'[n] = merged[n]
                 /\ (pc # "lm_restore" /\ merged[n].data_location = EXTERNAL)
                       => /\ DOMAIN merged'[n].external_data
                                = DOMAIN merged[n].external_data
                          /\ \A k \in DOMAIN merged[n].external_data :
                                merged'[n].external_data[k] =
                                   IF k = "location" THEN MergedLoc
                                   ELSE merged[n].external_data[k]

C17_NeitherIndexKept == [][C17_KeptStep]_vars

\* a graph is about to be saved that holds an Inline and an External
\* initializer of neither index; the External one names the merged payload
C17_Witness ==
    /\ prog = "merge_lowmem" /\ pc = "lm_save"
    /\ \E n, m \in DOMAIN merged :
          /\ InNeitherIndex(n) /\ InNeitherIndex(m)
          /\ merged[n].data_location = DEFAULT
          /\ merged[m].data_location = EXTERNAL
          /\ merged[m].external_data["location"] = MergedLoc
          /\ merged[m].external_data["offset"] = StaleRef["offset"]

\* C18: in a run that performs the merge, both payload indexes are built
\* before the structural merge is called, the merge is called only while
\* the replacement of to_array is installed, the references are reconciled
\* only after it is removed, the merged graph and the merged payload are
\* both on disk before quantization starts, and quantization has finished
\* before anything is uploaded.
IndexesBuilt ==
    /\ DOMAIN ext_a = {n \in DOMAIN decoder : decoder[n].data_location = EXTERNAL}
    /\ DOMAIN ext_b =
          {n \in DOMAIN decoder_wp : decoder_wp[n].data_location = EXTERNAL}

C18_StageOrdering ==
    /\ pc \in {"lm_merge", "up_merge"} =>
          (IndexesBuilt /\ to_array = "patched")
    /\ pc \in {"lm_restore", "lm_copy", "lm_copying", "lm_append",
               "lm_symlink", "up_repoint"} => to_array = "orig"
    /\ (report["merge"] = "ran" /\ pc \in {"q_check", "q_run", "q_writing"}) =>
          /\ fs[merged_path].kind = "file" /\ fs[merged_path].complete
          /\ fs[merged_data_path].kind # "none"
    /\ (report["merge"] = "ran" /\ pc \in {"u_list", "u_file", "done"}) =>
          /\ report["quantize"] \in {"ran", "skipped"}
          /\ fs[merged_q_path].kind = "file" /\ fs[merged_q_path].complete

\* C19: every stage, the upload stage included, is gated by an existence
\* check of its output: when the output exists the stage does none of its
\* actions and control passes on.  For the upload stage: a run started
\* after a run has reached "Done!", on whose remote side every merged file
\* is as it is on disk, uploads nothing.
RemoteUpToDate ==
    \A i \in 1..Len(MergedFiles) :
        /\ fs[MergedFiles[i]].kind # "none"
        /\ remote[i] = fs[realpath(fs, MergedFiles[i])]

InMergeStage ==
    pc \in {"lm_load", "lm_merge", "lm_restore", "lm_copy", "lm_copying",
            "lm_append", "lm_symlink", "lm_save", "up_patch", "up_load",
            "up_merge", "up_unpatch", "up_repoint", "up_save"}

C19_SkippedStep ==
    /\ (report["merge"] = "skipped" /\ pc' \notin {"idle", "lm_check", "up_download"})
          => /\ fs'[merged_path] = fs[merged_path]
             /\ fs'[merged_data_path] = fs[merged_data_path]
    /\ (report["quantize"] = "skipped" /\ pc' \notin {"idle", "lm_check", "up_download"})
          => fs'[merged_q_path] = fs[merged_q_path]
    /\ (pc \in {"lm_check", "up_download"} /\ needed = <<>>
           /\ exists(fs, merged_path) /\ pc' # "idle")
          => (pc' = "q_check" /\ report'["merge"] = "skipped")
    /\ (pc = "q_check" /\ exists(fs, merged_q_path) /\ pc' # "idle")
          => (pc' = "u_list" /\ report'["quantize"] = "skipped")

Window(n) == offset_map[n][1] .. (offset_map[n][1] + offset_map[n][2] - 1)

C20_WindowsTile ==
    (prog = "merge_lowmem" /\ pc = "lm_append") =>
        LET size == Len(Content(merged_data_path))
        IN /\ base_offset = Len(fs[dec_data].bytes)
           /\ DOMAIN offset_map = only_in_b \ todo
           /\ \A n \in DOMAIN offset_map :
                 /\ offset_map[n][1] >= base_offset
                 /\ offset_map[n][1] + offset_map[n][2] <= size
           /\ \A n, m \in DOMAIN offset_map :
                 n # m => Window(n) \cap Window(m) = {}
           /\ \A p \in base_offset .. (size - 1) :
                 \E n \in DOMAIN offset_map : p \in Window(n)

\* two tensors of UniqueB have been appended after a non-empty payload of A
C20_Witness ==
    /\ prog = "merge_lowmem" /\ pc = "lm_append" /\ todo = {}
    /\ base_offset > 0
    /\ Cardinality(DOMAIN offset_map) >= 2
    /\ \E n, m \in DOMAIN offset_map :
          offset_map[n][1] < offset_map[m][1] /\ Index(m) < Index(n)

\* C21: in merge_lowmem.main, in every reachable state, interruptions
\* included, when decoder_model_merged.onnx exists then
\* decoder_model_merged.onnx_data exists too, as an alias of A's payload
\* or as a file that has been built to its end: the payload is made
\* before the graph is saved.
C21_PayloadBeforeGraph ==
    fs[merged_path].kind # "none" =>
        /\ exists(fs, merged_data_path)
        /\ \/ /\ fs[merged_data_path].kind = "symlink"
              /\ realpath(fs, merged_data_path) = dec_data
           \/ /\ fs[merged_data_path].kind = "file"
              /\ fs[merged_data_path].complete

\* the graph file has been opened for writing by a run of the general path
\* that follows an interrupted one, and by a run of the fast path
C21_Witness ==
    /\ prog = "merge_lowmem" /\ pc = "lm_saving"
    /\ fs[merged_path] = PartialGraphFile
    /\ fs[merged_data_path].kind = "file"
    /\ only_in_b # {}
    /\ nwritten = Len(fs[merged_data_path].bytes)

C21_WitnessAlias ==
    /\ prog = "merge_lowmem" /\ pc = "lm_saving"
    /\ fs[merged_path] = PartialGraphFile
    /\ fs[merged_data_path].kind = "symlink"

\* C22: no sequence of runs (fast path, general path, interrupted and run
\* again in any order on the same inputs) writes to, truncates or replaces
\* the payload files or the graph files of A and B; the general path never
\* appends to A's payload through an alias left at the name of the merged
\* payload.
C22_SourceKeptStep ==
    \A f \in SourceFiles : fs[f].kind # "none" => fs'[f] = fs[f]

C22_SourcesUntouched ==
    /\ [](\A f \in SourceFiles : fs[f] = NoFile \/ fs[f] = hub[f])
    /\ []((pc \in {"lm_copying", "lm_append"}) =>
             realpath(fs, merged_data_path) \notin SourceFiles)
    /\ [][C22_SourceKeptStep]_vars

\* a run of the general path has written the merged payload to its end
\* while the remote side still holds an alias's upload of an earlier run
C22_Witness ==
    /\ prog = "merge_lowmem" /\ pc = "lm_append" /\ todo = {}
    /\ only_in_b # {}
    /\ nwritten > Len(fs[dec_data].bytes)
    /\ Len(fs[dec_data].bytes) > 0
    /\ \A f \in SourceFiles : fs[f] = hub[f]

\* an alias of A's payload stands at the name of the merged payload
C22_WitnessAlias ==
    /\ pc = "done"
    /\ fs[merged_data_path].kind = "symlink"
    /\ realpath(fs, merged_data_path) = dec_data
    /\ fs[dec_data] = hub[dec_data]
    /\ Len(fs[dec_data].bytes) > 0

====
